---- MODULE Spec2Model ----
(***************************************************************************)
(* Model of dlvod's external-process pipeline (src/src/main.rs):           *)
(* main, the Ctrl+C handler thread, download_run (spawn, relay loop,       *)
(* stderr thread, the two wait_cmd calls, join) and the two child          *)
(* processes yt-dlp (stage "A") and ffmpeg (stage "B") with the pipes      *)
(* between them.  The threads and the children run at unrelated speeds;    *)
(* a sleep is recorded by the time the sleeper still has to wait.          *)
(***************************************************************************)
EXTENDS Integers, Sequences, FiniteSets, TLC

\* ---- bounds of the model ----
MaxBytes == 3      \* longest source stream yt-dlp produces
BufLen   == 2      \* relay buffer length (4096 in the source, scaled down)
PipeCap  == 2      \* capacity of an OS pipe, in bytes
MaxLines == 1      \* stderr lines that can be pending in the stderr pipe
MaxSigs  == 2      \* interrupts (Ctrl+C) delivered to the program
LogCap   == 1      \* capacity of the pipe behind ffmpeg's stderr

\* ---- program constants ----
PollMs  == 100     \* thread::sleep in wait_cmd
GraceMs == 1000    \* thread::sleep in the ctrlc handler

VARIABLES
    done,       \* the AtomicBool shared by the handler and download_run
    prog,       \* "running", "exit0", "exit1": the program's termination
    pc,         \* position of the main thread
    cur,        \* the child the running wait_cmd call is about
    sleepLeft,  \* ms left of the sleep in wait_cmd
    result,     \* what download_run returned, [kind, stage]
    proc,       \* the two children: state, exit status, kill sent, exit seen
    relayOpen,  \* yt_dlp_stdout and ffmpeg_stdin are still held
    aSent,      \* bytes yt-dlp has written to its stdout so far
    aout,       \* bytes in the pipe yt-dlp stdout -> relay
    buf,        \* buf[0..bytes_read] of the relay loop
    bin,        \* bytes in the pipe relay -> ffmpeg stdin
    received,   \* bytes ffmpeg has read from its stdin
    errOpen,    \* some process still holds the write end of yt-dlp's stderr
    errLines,   \* lines pending in the stderr pipe
    drain,      \* the stderr thread
    hpc,        \* the ctrlc handler thread
    grace,      \* ms left of the handler's sleep
    sigs,       \* interrupts delivered so far
    \* history of the run
    cancelAt,   \* pc of the main thread when done became true
    relayIn,    \* every byte the relay read from yt-dlp
    relayOut,   \* every byte ffmpeg's stdin accepted
    bExitCtx,   \* what the relay was doing when ffmpeg exited
    bLog,       \* bytes ffmpeg has written to its stderr, which nothing reads
    sysFault    \* an OS call of the main thread failed by itself

vars == <<done, prog, pc, cur, sleepLeft, result, proc, relayOpen, aSent,
          aout, buf, bin, received, errOpen, errLines, drain, hpc, grace,
          sigs, cancelAt, relayIn, relayOut, bExitCtx, bLog, sysFault>>

mainVars  == <<pc, cur, sleepLeft, result>>
pipeVars  == <<relayOpen, aSent, aout, buf, bin, received, relayIn, relayOut>>
errVars   == <<errOpen, errLines, drain>>
hVars     == <<done, hpc, grace, sigs, cancelAt>>

Stages == {"A", "B"}

Min(a, b) == IF a < b THEN a ELSE b

Take(s, n) == SubSeq(s, 1, n)
Drop(s, n) == SubSeq(s, n + 1, Len(s))

NoProc == [st |-> "unspawned", status |-> "none", killed |-> FALSE,
           observed |-> FALSE]

NoResult == [kind |-> "none", stage |-> "none"]

Res(k, s) == [kind |-> k, stage |-> s]

\* the positions of the main thread inside download_run, both spawned
RunPcs == {"take", "read", "write", "check", "poll", "flag", "sleep", "join"}

Init ==
    /\ done = FALSE
    /\ prog = "running"
    /\ pc = "fetch"
    /\ cur = "A"
    /\ sleepLeft = 0
    /\ result = NoResult
    /\ proc = [s \in Stages |-> NoProc]
    /\ relayOpen = FALSE
    /\ aSent = 0
    /\ aout = <<>>
    /\ buf = <<>>
    /\ bin = <<>>
    /\ received = <<>>
    /\ errOpen = FALSE
    /\ errLines = 0
    /\ drain = "unstarted"
    /\ hpc = "idle"
    /\ grace = 0
    /\ sigs = 0
    /\ cancelAt = "never"
    /\ relayIn = <<>>
    /\ relayOut = <<>>
    /\ bExitCtx = "none"
    /\ bLog = 0
    /\ sysFault = FALSE

\* main: download_run(..).await? and the Ok(()) of main: the termination
\* code of a main that returns r
ExitOf(r) == IF r.kind = "Ok" THEN "exit0" ELSE "exit1"

\* download_run returns r to main (the `?` operator and the final Ok(())):
\* the locals are dropped, which closes the pipe ends they still hold and
\* neither kills nor waits for a Child; main returns r in turn.
Return(r) ==
    /\ result' = r
    /\ pc' = "exited"
    /\ prog' = ExitOf(r)
    /\ relayOpen' = FALSE
    /\ UNCHANGED <<cur, sleepLeft>>

----------------------------------------------------------------------------
\* main

\* main: the two get_pending_runs calls
Fetch ==
    /\ prog = "running" /\ pc = "fetch"
    /\ \/ /\ pc' = "select"
          /\ UNCHANGED prog
       \/ /\ pc' = "exited"
          /\ prog' = "exit1"
    /\ UNCHANGED <<cur, sleepLeft, result, proc, pipeVars, errVars, hVars,
                   bExitCtx, bLog, sysFault>>

\* main: Select::interact_opt and the `if let Some(choice)`; main ends here
\* when nothing is chosen (code 0) or the prompt fails (nonzero code)
SelectRun ==
    /\ prog = "running" /\ pc = "select"
    /\ \/ /\ pc' = "spawnA"
          /\ UNCHANGED prog
       \/ /\ pc' = "exited"
          /\ prog' \in {"exit0", "exit1"}
    /\ UNCHANGED <<cur, sleepLeft, result, proc, pipeVars, errVars, hVars,
                   bExitCtx, bLog, sysFault>>

----------------------------------------------------------------------------
\* download_run

\* SpawnA with the `?` of line 220 lost: a failed spawn goes on to ffmpeg
SpawnAUnchecked ==
    /\ prog = "running" /\ pc = "spawnA"
    /\ \/ /\ proc' = [proc EXCEPT !["A"].st = "running"]
          /\ errOpen' = TRUE
       \/ UNCHANGED <<proc, errOpen>>
    /\ pc' = "spawnB"
    /\ UNCHANGED <<prog, result, relayOpen, cur, sleepLeft, aSent, aout, buf,
                   bin, received, relayIn, relayOut, errLines, drain, hVars,
                   bExitCtx, bLog, sysFault>>

\* yt_dlp_cmd.spawn()?
SpawnA ==
    /\ prog = "running" /\ pc = "spawnA"
    /\ \/ /\ proc' = [proc EXCEPT !["A"].st = "running"]
          /\ errOpen' = TRUE
          /\ pc' = "spawnB"
          /\ UNCHANGED <<prog, result, relayOpen, cur, sleepLeft>>
       \/ /\ Return(Res("SpawnError", "A"))
          /\ UNCHANGED <<proc, errOpen>>
    /\ UNCHANGED <<aSent, aout, buf, bin, received, relayIn, relayOut,
                   errLines, drain, hVars, bExitCtx, bLog, sysFault>>

\* ffmpeg_cmd.spawn()?
SpawnB ==
    /\ prog = "running" /\ pc = "spawnB"
    /\ \/ /\ proc' = [proc EXCEPT !["B"].st = "running"]
          /\ pc' = "take"
          /\ UNCHANGED <<prog, result, relayOpen, cur, sleepLeft>>
       \/ /\ Return(Res("SpawnError", "B"))
          /\ UNCHANGED proc
    /\ UNCHANGED <<aSent, aout, buf, bin, received, relayIn, relayOut,
                   errVars, hVars, bExitCtx, bLog, sysFault>>

\* the three take().unwrap() and thread::spawn of the stderr thread
TakeHandles ==
    /\ prog = "running" /\ pc = "take"
    /\ relayOpen' = TRUE
    /\ drain' = "reading"
    /\ pc' = "read"
    /\ UNCHANGED <<cur, sleepLeft, result, proc, aSent, aout, buf, bin,
                   received, relayIn, relayOut, errOpen, errLines, hVars,
                   prog, bExitCtx, bLog, sysFault>>

\* yt_dlp_stdout.read(&mut buf).context("Couldn't read from yt-dlp")?
RelayRead ==
    /\ prog = "running" /\ pc = "read"
    /\ \/ /\ aout # <<>>
          /\ LET n == Min(Len(aout), BufLen) IN
               /\ buf' = Take(aout, n)
               /\ aout' = Drop(aout, n)
               /\ relayIn' = relayIn \o Take(aout, n)
          /\ pc' = "write"
          /\ UNCHANGED <<prog, result, relayOpen, cur, sleepLeft, sysFault>>
       \/ /\ aout = <<>>
          /\ proc["A"].st # "running"
          /\ buf' = <<>>
          /\ pc' = "write"
          /\ UNCHANGED <<prog, aout, relayIn, result, relayOpen, cur, sleepLeft,
                         sysFault>>
       \/ /\ Return(Res("IOError", "A"))
          /\ sysFault' = TRUE
          /\ UNCHANGED <<aout, buf, relayIn>>
    /\ UNCHANGED <<proc, aSent, bin, received, relayOut, errVars, hVars, bExitCtx, bLog>>

\* The bytes of b that one write call hands to the sink when the sink
\* accepts k of them.
WritePartial(b, k) == Take(b, k)

\* ffmpeg_stdin.write(&buf[0..bytes_read]).context("Couldn't write to ffmpeg")?
\* The number of bytes written is discarded.
RelayWrite ==
    /\ prog = "running" /\ pc = "write"
    /\ \/ /\ buf = <<>>
          /\ pc' = "check"
          /\ UNCHANGED <<prog, bin, relayOut, result, relayOpen, cur, sleepLeft,
                         sysFault>>
       \/ /\ buf # <<>>
          /\ proc["B"].st = "running"
          /\ \E k \in 1..Len(buf) :
               /\ Len(bin) + k <= PipeCap
               /\ bin' = bin \o WritePartial(buf, k)
               /\ relayOut' = relayOut \o WritePartial(buf, k)
          /\ pc' = "check"
          /\ UNCHANGED <<prog, result, relayOpen, cur, sleepLeft, sysFault>>
       \/ /\ buf # <<>>
          /\ proc["B"].st # "running"
          /\ Return(Res("IOError", "B"))
          /\ UNCHANGED <<bin, relayOut, sysFault>>
       \/ /\ buf # <<>>
          /\ proc["B"].st = "running"
          /\ Return(Res("IOError", "B"))
          /\ sysFault' = TRUE
          /\ UNCHANGED <<bin, relayOut>>
    /\ UNCHANGED <<proc, aSent, aout, buf, received, relayIn, errVars,
                   hVars, bExitCtx, bLog>>

\* RelayStop that ends the loop on end of input only
RelayStopEofOnly(bytesRead, flag) == bytesRead = 0

\* if bytes_read == 0 || done.load(..) { drop; drop; break }
RelayStop(bytesRead, flag) == bytesRead = 0 \/ flag

\* RelayCheck whose break leaves yt_dlp_stdout and ffmpeg_stdin open
RelayCheckNoDrop ==
    /\ prog = "running" /\ pc = "check"
    /\ IF RelayStop(Len(buf), done)
         THEN /\ cur' = "A"
              /\ \/ /\ pc' = "poll"
                    /\ UNCHANGED prog
                 \/ /\ pc' = "exited"
                    /\ prog' = "exit1"
         ELSE /\ pc' = "read"
              /\ UNCHANGED <<cur, prog>>
    /\ UNCHANGED <<relayOpen, sleepLeft, result, proc, aSent, aout, buf, bin,
                   received, relayIn, relayOut, errVars, hVars, bExitCtx, bLog,
                   sysFault>>

\* After the break, println!("\nDone!") panics the main thread when stdout
\* fails, which ends the program with a nonzero code.
RelayCheck ==
    /\ prog = "running" /\ pc = "check"
    /\ IF RelayStop(Len(buf), done)
         THEN /\ relayOpen' = FALSE
              /\ cur' = "A"
              /\ \/ /\ pc' = "poll"
                    /\ UNCHANGED prog
                 \/ /\ pc' = "exited"
                    /\ prog' = "exit1"
         ELSE /\ pc' = "read"
              /\ UNCHANGED <<relayOpen, cur, prog>>
    /\ UNCHANGED <<sleepLeft, result, proc, aSent, aout, buf, bin, received,
                   relayIn, relayOut, errVars, hVars, bExitCtx, bLog, sysFault>>

----------------------------------------------------------------------------
\* wait_cmd

\* wait_cmd returned Ok(()) for child s: the next statement of download_run
AfterWait(s) ==
    IF s = "A" THEN /\ cur' = "B"
                    /\ pc' = "poll"
               ELSE /\ pc' = "join"
                    /\ UNCHANGED cur

\* Observe that also issues kill on the child it has seen exit
ObserveAndKill(p) == [p EXCEPT !.observed = TRUE, !.killed = TRUE]

\* try_wait returned Ok(Some(status)): the exit of the child has been seen
Observe(p) == [p EXCEPT !.observed = TRUE]

\* match child.try_wait() { .. }
WaitPoll ==
    /\ prog = "running" /\ pc = "poll"
    /\ \/ /\ proc[cur].st = "running"
          /\ pc' = "flag"
          /\ UNCHANGED <<prog, cur, result, relayOpen, proc, sleepLeft, sysFault>>
       \/ /\ proc[cur].st = "exited"
          /\ proc[cur].status = "ok"
          /\ proc' = [proc EXCEPT ![cur] = Observe(proc[cur])]
          /\ AfterWait(cur)
          /\ UNCHANGED <<prog, result, relayOpen, sleepLeft, sysFault>>
       \/ /\ proc[cur].st = "exited"
          /\ proc[cur].status # "ok"
          /\ proc' = [proc EXCEPT ![cur] = Observe(proc[cur])]
          /\ Return(Res("StageFailed", cur))
          /\ UNCHANGED sysFault
       \/ /\ Return(Res("WaitError", cur))
          /\ sysFault' = TRUE
          /\ UNCHANGED proc
    /\ UNCHANGED <<aSent, aout, buf, bin, received, relayIn, relayOut,
                   errVars, hVars, bExitCtx, bLog>>

\* child.kill(): SIGKILL to the child, which ends it unless it has ended
Kill(p) ==
    [p EXCEPT !.killed = TRUE,
              !.st = "exited",
              !.status = IF p.st = "running" THEN "sigkill" ELSE p.status]

\* WaitFlag that sleeps first and acts on the flag in a later iteration
WaitFlagSleepsFirst ==
    /\ prog = "running" /\ pc = "flag"
    /\ pc' = "sleep"
    /\ sleepLeft' = PollMs
    /\ UNCHANGED <<prog, proc, result, relayOpen, cur, errOpen, aSent, aout,
                   buf, bin, received, relayIn, relayOut, errLines, drain,
                   hVars, bExitCtx, bLog, sysFault>>

\* if done.load(..) { child.kill()?; bail!("Ctrl+C") }, else the sleep begins
WaitFlag ==
    /\ prog = "running" /\ pc = "flag"
    /\ IF done
         THEN /\ proc' = [proc EXCEPT ![cur] = Kill(proc[cur])]
              /\ Return(Res("Cancelled", cur))
              /\ UNCHANGED errOpen
         ELSE /\ pc' = "sleep"
              /\ sleepLeft' = PollMs
              /\ UNCHANGED <<prog, proc, result, relayOpen, cur, errOpen>>
    /\ UNCHANGED <<aSent, aout, buf, bin, received, relayIn, relayOut,
                   errLines, drain, hVars, bExitCtx, bLog, sysFault>>

\* thread::sleep(Duration::from_millis(100)) is over
WaitSleep ==
    /\ prog = "running" /\ pc = "sleep"
    /\ sleepLeft' = 0
    /\ pc' = "poll"
    /\ UNCHANGED <<cur, result, proc, pipeVars, errVars, hVars,
                   prog, bExitCtx, bLog, sysFault>>

\* stderr_thread.join().map_err(..)? and Ok(())
Join ==
    /\ prog = "running" /\ pc = "join"
    /\ \/ /\ drain = "ended"
          /\ Return(Res("Ok", "none"))
       \/ /\ drain = "panicked"
          /\ Return(Res("IOError", "drain"))
    /\ UNCHANGED <<proc, aSent, aout, buf, bin, received, relayIn, relayOut,
                   errVars, hVars, bExitCtx, bLog, sysFault>>

----------------------------------------------------------------------------
\* the stderr thread

\* reader.read_line(&mut buf): a line, or end of input / an error: break
DrainRead ==
    /\ prog = "running" /\ drain = "reading"
    /\ \/ /\ errLines > 0
          /\ errLines' = errLines - 1
          /\ drain' = "printing"
       \/ /\ errLines = 0
          /\ ~errOpen
          /\ drain' = "ended"
          /\ UNCHANGED errLines
       \/ /\ drain' = "ended"
          /\ UNCHANGED errLines
    /\ UNCHANGED <<mainVars, proc, pipeVars, errOpen, hVars, prog, bExitCtx, bLog,
                   sysFault>>

\* print!(..); io::stdout().flush().unwrap(): panics when stdout fails
DrainPrint ==
    /\ prog = "running" /\ drain = "printing"
    /\ drain' \in {"reading", "panicked"}
    /\ UNCHANGED <<mainVars, proc, pipeVars, errOpen, errLines, hVars, prog,
                   bExitCtx, bLog, sysFault>>

----------------------------------------------------------------------------
\* the ctrlc handler thread

\* Interrupt whose closure flips the flag on every interrupt
InterruptToggle ==
    /\ prog = "running"
    /\ sigs < MaxSigs
    /\ sigs' = sigs + 1
    /\ done' = ~done
    /\ hpc' = "sleeping"
    /\ grace' = GraceMs
    /\ cancelAt' = IF cancelAt = "never" THEN pc ELSE cancelAt
    /\ UNCHANGED <<mainVars, proc, pipeVars, errVars, prog, bExitCtx, bLog,
                   sysFault>>

\* an interrupt arrives; the handler thread runs the closure for the first
\* one: done.store(true), then the sleep begins.  Later interrupts find the
\* handler thread inside the closure.
Interrupt ==
    /\ prog = "running"
    /\ sigs < MaxSigs
    /\ sigs' = sigs + 1
    /\ IF hpc = "idle"
         THEN /\ done' = TRUE
              /\ hpc' = "sleeping"
              /\ grace' = GraceMs
              /\ cancelAt' = IF cancelAt = "never" THEN pc ELSE cancelAt
         ELSE UNCHANGED <<done, hpc, grace, cancelAt>>
    /\ UNCHANGED <<mainVars, proc, pipeVars, errVars, prog, bExitCtx, bLog,
                   sysFault>>

\* ForceExit that waits for the main thread to be out of the relay loop
ForceExitAfterRelay ==
    /\ prog = "running"
    /\ hpc = "sleeping"
    /\ pc \notin {"read", "write", "check"}
    /\ grace' = 0
    /\ hpc' = "exited"
    /\ prog' = "exit1"
    /\ UNCHANGED <<mainVars, proc, pipeVars, errVars, done, sigs,
                   cancelAt, bExitCtx, bLog, sysFault>>

\* thread::sleep(1000 ms) is over: exit(1)
ForceExit ==
    /\ prog = "running"
    /\ hpc = "sleeping"
    /\ grace' = 0
    /\ hpc' = "exited"
    /\ prog' = "exit1"
    /\ UNCHANGED <<mainVars, proc, pipeVars, errVars, done, sigs,
                   cancelAt, bExitCtx, bLog, sysFault>>

----------------------------------------------------------------------------
\* the children

\* yt-dlp writes the next byte of the stream to its stdout
AProduce ==
    /\ prog = "running"
    /\ proc["A"].st = "running"
    /\ aSent < MaxBytes
    /\ Len(aout) < PipeCap
    /\ aSent' = aSent + 1
    /\ aout' = Append(aout, aSent + 1)
    /\ UNCHANGED <<mainVars, proc, relayOpen, buf, bin, received, relayIn,
                   relayOut, errVars, hVars, prog, bExitCtx, bLog, sysFault>>

\* yt-dlp writes a progress line to its stderr
AStderr ==
    /\ prog = "running"
    /\ proc["A"].st = "running"
    /\ errLines < MaxLines
    /\ errLines' = errLines + 1
    /\ UNCHANGED <<mainVars, proc, pipeVars, errOpen, drain, hVars, prog,
                   bExitCtx, bLog, sysFault>>

\* yt-dlp exits by itself; its stdout closes, its stderr closes unless a
\* process it started still holds it
AExit ==
    /\ prog = "running"
    /\ proc["A"].st = "running"
    /\ \E s \in {"ok", "fail"} :
         proc' = [proc EXCEPT !["A"].st = "exited", !["A"].status = s]
    /\ errOpen' \in BOOLEAN
    /\ UNCHANGED <<mainVars, pipeVars, errLines, drain, hVars, prog,
                   bExitCtx, bLog, sysFault>>

\* the last holder of yt-dlp's stderr goes away
ErrClose ==
    /\ prog = "running"
    /\ proc["A"].st = "exited"
    /\ errOpen
    /\ errOpen' = FALSE
    /\ UNCHANGED <<mainVars, proc, pipeVars, errLines, drain, hVars, prog,
                   bExitCtx, bLog, sysFault>>

\* ffmpeg is inside a write to its stderr that the full pipe does not
\* accept: stderr is Stdio::piped() (line 216) and its read end is never
\* taken from ffmpeg_child nor read
BBlocked == bLog > LogCap

\* ffmpeg writes a byte of its log to its stderr
BLog ==
    /\ prog = "running"
    /\ proc["B"].st = "running"
    /\ ~BBlocked
    /\ bLog' = bLog + 1
    /\ UNCHANGED <<mainVars, proc, pipeVars, errVars, hVars, prog, bExitCtx,
                   sysFault>>

\* ffmpeg reads a byte of its stdin
BConsume ==
    /\ prog = "running"
    /\ proc["B"].st = "running"
    /\ ~BBlocked
    /\ bin # <<>>
    /\ received' = Append(received, Head(bin))
    /\ bin' = Tail(bin)
    /\ UNCHANGED <<mainVars, proc, relayOpen, aSent, aout, buf, relayIn,
                   relayOut, errVars, hVars, prog, bExitCtx, bLog, sysFault>>

\* what the relay is doing with ffmpeg's stdin
RelayCtx ==
    IF pc \in {"poll", "flag", "sleep", "join"} /\ bin = <<>>
      THEN "eof"
      ELSE IF /\ proc["A"].st = "running"
              /\ \/ pc = "write" /\ buf # <<>>
                 \/ pc \in {"take", "read"} /\ aout # <<>>
             THEN "producing"
             ELSE "early"

\* ffmpeg exits by itself
BExit ==
    /\ prog = "running"
    /\ proc["B"].st = "running"
    /\ ~BBlocked
    /\ \E s \in {"ok", "fail"} :
         proc' = [proc EXCEPT !["B"].st = "exited", !["B"].status = s]
    /\ bExitCtx' = RelayCtx
    /\ UNCHANGED <<mainVars, pipeVars, errVars, hVars, prog, bLog, sysFault>>

----------------------------------------------------------------------------

Next ==
    \/ Fetch \/ SelectRun
    \/ SpawnA \/ SpawnB \/ TakeHandles
    \/ RelayRead \/ RelayWrite \/ RelayCheck
    \/ WaitPoll \/ WaitFlag \/ WaitSleep \/ Join
    \/ DrainRead \/ DrainPrint
    \/ Interrupt \/ ForceExit
    \/ AProduce \/ AStderr \/ AExit \/ ErrClose \/ BConsume \/ BLog \/ BExit

Spec == Init /\ [][Next]_vars

TypeOK ==
    /\ done \in BOOLEAN
    /\ prog \in {"running", "exit0", "exit1"}
    /\ pc \in {"fetch", "select", "spawnA", "spawnB", "exited"}
              \cup RunPcs
    /\ cur \in Stages
    /\ sleepLeft \in 0..PollMs
    /\ grace \in 0..GraceMs
    /\ Len(aout) <= PipeCap /\ Len(bin) <= PipeCap /\ Len(buf) <= BufLen
    /\ aSent \in 0..MaxBytes
    /\ drain \in {"unstarted", "reading", "printing", "ended", "panicked"}
    /\ hpc \in {"idle", "sleeping", "exited"}
    /\ bLog \in 0..(LogCap + 1)

----------------------------------------------------------------------------
\* the state of a run, as the claims speak of it

\* download_run has returned
Reported == result.kind # "none"

\* the child has been started
Spawned(s) == proc[s].st # "unspawned"

\* kill was issued on the child, or try_wait has seen its exit
Settled(s) == proc[s].killed \/ proc[s].observed

\* both children ended by themselves with code 0
BothOk == \A s \in Stages : proc[s].st = "exited" /\ proc[s].status = "ok"

\* the relay loop has been left through its break
RelayDone == pc \in {"poll", "flag", "sleep", "join"}

----------------------------------------------------------------------------
\* C1: when the flag is set after both stages were spawned and before the
\* outcome is reported, every stage not yet observed exited has been sent a
\* kill request by the time the outcome is reported (runs in which wait_cmd
\* acted on the flag).
C1_CancelKillsEveryStage ==
    (result.kind = "Cancelled" /\ cancelAt \in RunPcs)
        => \A s \in Stages : Settled(s)

\* C2: when the flag is set during the run before both stages have been
\* observed to exit with code 0, the reported outcome is Cancelled (runs
\* whose OS calls did not fail and whose Stage B did not end before the
\* relay stopped).
C2_CancelYieldsCancelled ==
    (Reported /\ ~sysFault /\ cancelAt \in RunPcs \ {"join"}
              /\ bExitCtx \in {"none", "eof"})
        => result.kind = "Cancelled"

\* C3: when Stage A exits with a nonzero code in a two-stage run whose
\* Stage B did not end before the relay stopped, the outcome is StageFailed
\* naming Stage A and Stage B is not left running without a kill request.
C3_StageAFailureKillsB ==
    (Reported /\ Spawned("B") /\ ~sysFault /\ proc["A"].status = "fail"
              /\ bExitCtx \in {"none", "eof"})
        => /\ result = Res("StageFailed", "A")
           /\ proc["B"].st = "running" => proc["B"].killed

\* C4: when Stage B exits with a nonzero code while Stage A is running and has
\* output under way, the outcome is StageFailed naming Stage B and Stage A
\* has been sent a kill request (or was observed exited).
C4_StageBFailureKillsA ==
    (Reported /\ ~sysFault /\ proc["B"].status = "fail"
              /\ bExitCtx = "producing")
        => /\ result = Res("StageFailed", "B")
           /\ Settled("A")

\* C5: download_run returns Ok if and only if both stages exited with code 0
\* and the flag was never set before the return (the "if" direction for runs
\* whose OS calls and stderr thread did not fail).
C5_OkIffCleanRun ==
    Reported =>
        /\ result.kind = "Ok" => (BothOk /\ ~done)
        /\ (BothOk /\ ~done /\ ~sysFault /\ bExitCtx = "eof"
                   /\ drain = "ended")
               => result.kind = "Ok"

\* C6: when the flag is never set and both stages exit with code 0 on their
\* own, Stage B after its input was closed, the outcome is Success and kill
\* is called on neither stage.
C6_CleanRunSucceeds ==
    (Reported /\ ~done /\ ~sysFault /\ BothOk /\ bExitCtx = "eof")
        => /\ result.kind = "Ok"
           /\ \A s \in Stages : ~proc[s].killed

\* C7: when spawning Stage B fails, Stage A has been sent a kill request (or
\* has ended) by the time download_run returns the spawn error.
C7_SpawnFailureKillsA ==
    result = Res("SpawnError", "B")
        => (proc["A"].killed \/ proc["A"].st = "exited")

\* C8: without cancellation, once the relay has stopped the bytes accepted by
\* Stage B's input are exactly the bytes read from Stage A's output, in order.
C8_RelayByteExact ==
    (RelayDone /\ cancelAt \notin {"take", "read", "write", "check"}
               /\ cancelAt \notin {"fetch", "select", "spawnA", "spawnB"})
        => relayOut = relayIn

\* C9: when download_run returns an I/O error, every spawned stage has been
\* sent a kill request or was observed exited.
C9_IOErrorKillsStages ==
    result.kind = "IOError"
        => \A s \in Stages : Spawned(s) => Settled(s)

\* C10: the stderr thread cannot change the outcome: once both stages have
\* been observed to exit with code 0, download_run returns Ok whatever the
\* stderr thread did.
C10_DrainNeverFailsRun ==
    (Reported /\ \A s \in Stages : proc[s].observed /\ proc[s].status = "ok")
        => result.kind = "Ok"

----------------------------------------------------------------------------
\* C13: whenever the main thread is in the wait phase (a wait_cmd call or the
\* join), both relay endpoints have been closed.
C13_EndpointsClosedBeforeWait ==
    RelayDone => ~relayOpen

\* a run in the first poll of wait_cmd after the relay copied data
C13_Witness ==
    pc = "poll" /\ cur = "A" /\ relayIn # <<>> /\ ~relayOpen

\* C14: Stage B is spawned only after Stage A, and a failed spawn of Stage A
\* ends the run with the spawn error without Stage B ever being spawned.
C14_SpawnOrder ==
    /\ Spawned("B") => Spawned("A")
    /\ pc = "spawnB" => Spawned("A")
    /\ result = Res("SpawnError", "A")
          => (~Spawned("A") /\ ~Spawned("B") /\ prog = "exit1")

\* the spawn of Stage A failed
C14_Witness ==
    result = Res("SpawnError", "A") /\ ~Spawned("B")

\* C15: the flag starts false, no step sets it back to false, and an
\* interrupt that arrives after the first one changes neither the flag nor
\* the handler thread.
C15_FlagMonotonic ==
    /\ (sigs = 0 => ~done)
    /\ [][/\ done => done'
          /\ (sigs >= 1 /\ sigs' > sigs)
                => (done' /\ UNCHANGED <<done, hpc, grace, cancelAt>>)]_vars

\* a second interrupt has been delivered
C15_Witness ==
    sigs = 2 /\ done

C19_ExitBeforeFlag ==
    /\ \A s \in Stages : proc[s].observed => ~proc[s].killed
    /\ result.kind = "Cancelled"
          => (proc[result.stage].killed /\ ~proc[result.stage].observed)
    /\ result.kind = "StageFailed"
          => (proc[result.stage].observed /\ proc[result.stage].status # "ok")

\* the flag was set before the poll that observed the exit of a stage
C19_Witness ==
    /\ result = Res("StageFailed", "B")
    /\ cancelAt \in {"read", "write", "check"}
    /\ proc["A"].observed

\* C20: a relay check that finds the flag set never goes back to read: it
\* closes both endpoints and leaves the loop, and the loop is only re-entered
\* from a check with the flag unset and a non-empty read.
C20_RelayStopsAtCheck ==
    [][/\ (pc = "check" /\ pc' # pc /\ done)
             => (pc' \in {"poll", "exited"} /\ ~relayOpen')
       /\ (pc = "check" /\ pc' = "read") => (~done /\ buf # <<>>)
       /\ pc' = "check" => pc \in {"write", "check"}
       /\ pc' = "write" => pc \in {"read", "write"}]_vars

\* the relay was stopped by the flag after a read that returned data
C20_Witness ==
    /\ pc = "poll" /\ buf # <<>>
    /\ cancelAt \in {"read", "write", "check"}
    /\ ~relayOpen

----------------------------------------------------------------------------
\* the relay is inside a read that has no data and no end of input to
\* return, or inside a write that the full pipe does not accept
RelayBlocked ==
    \/ pc = "read" /\ aout = <<>> /\ proc["A"].st = "running"
    \/ /\ pc = "write" /\ buf # <<>>
       /\ proc["B"].st = "running" /\ Len(bin) = PipeCap

\* C11: a relay that is blocked in a read or a write when the flag is set
\* stops by itself: the forced exit of the handler never finds it still
\* blocked there.
C11_FlagUnblocksRelay ==
    (hpc = "exited" /\ cancelAt \in {"read", "write"}) => ~RelayBlocked

\* C17: the program ends with code 0 only after a run that returned Ok (or
\* with no run started), with a nonzero code after every other outcome, and
\* with a nonzero code whenever the flag was set during download_run before
\* both stages were observed to succeed.
C17_ExitCode ==
    /\ prog = "exit0" => result.kind \in {"Ok", "none"}
    /\ (Reported /\ result.kind # "Ok") => prog = "exit1"
    /\ (prog # "running" /\ cancelAt \in RunPcs \ {"join"}) => prog = "exit1"

----------------------------------------------------------------------------
\* The handler thread is a thread of its own: once it sleeps, its sleep ends
\* and it calls exit(1), whatever the other threads do.
HandlerSpec == Spec /\ WF_vars(ForceExit)

\* C16: once an interrupt has set the flag, the program ends: by itself, or
\* by the exit(1) of the handler at the end of its sleep of GraceMs, which
\* gives a nonzero code.
C16_InterruptEndsProgram ==
    /\ done ~> (prog # "running")
    /\ [](hpc = "exited" => (prog = "exit1" /\ grace = 0))
    /\ [](hpc = "sleeping" => (done /\ grace = GraceMs))

\* the handler ended the program while the relay was blocked in a read
C16_Witness ==
    hpc = "exited" /\ prog = "exit1" /\ RelayBlocked /\ drain = "reading"

----------------------------------------------------------------------------
\* a step of the main thread in which no OS call fails by itself
MainStep ==
    /\ \/ Fetch \/ SelectRun
       \/ SpawnA \/ SpawnB \/ TakeHandles
       \/ RelayRead \/ RelayWrite \/ RelayCheck
       \/ WaitPoll \/ WaitFlag \/ WaitSleep \/ Join
    /\ ~sysFault'

\* The threads of the program keep running; yt-dlp ends and the last holder
\* of its stderr goes away; ffmpeg reads its input and ends unless it is
\* blocked on I/O.
RunSpec ==
    /\ Spec
    /\ WF_vars(MainStep)
    /\ WF_vars(DrainRead \/ DrainPrint)
    /\ WF_vars(ForceExit)
    /\ WF_vars(AExit)
    /\ WF_vars(ErrClose)
    /\ WF_vars(BConsume)
    /\ WF_vars(BExit)

\* C12: a run without cancellation ends: download_run returns (or the
\* program ends before it), also with ffmpeg's stdout and stderr piped and
\* never read.
C12_RunTerminates ==
    <>(Reported \/ done \/ prog # "running")

====
